---- MODULE Spec2Model ----
(***************************************************************************)
(* Model of sp_implementation/detect_features.py: the SuperPoint keypoint  *)
(* extraction (extract_superpoint_keypoints), the table export             *)
(* (save_keypoints_to_csv) and the batch loop (run_superpoint_on_folder).  *)
(*                                                                         *)
(* Confidence values are fixed-point numbers counted in halves: the model  *)
(* value v stands for the float v / 2, so that the final astype(int) is a  *)
(* real truncation and not the identity.                                   *)
(***************************************************************************)
EXTENDS Integers, Sequences, FiniteSets, TLC

\* ------------------------------------------------------------------ bounds
MaxFiles == 2
MaxKeep == 2
GridCols == 2

Rows == 0 .. 1
Cols == 0 .. (GridCols - 1)

\* Confidence values a grid cell may hold, in halves: -0.5, 0, 0.5, 3, 3.5, 5.
GridValues == {-1, 0, 1, 6, 7, 10}

VARIABLES
    keypoint_map,    \* the confidence grid of the current image
    keep_k_points,   \* parameter keep_k_points
    keypoints,       \* result of extract_superpoint_keypoints / process_image
    df,              \* table built by save_keypoints_to_csv
    dirOrder,        \* the input folder: its files in directory-listing order
    weights_name,    \* Path(weights_path).name
    caseSensitive,   \* whether the platform's glob matches case-sensitively
    pc,              \* position in run_superpoint_on_folder
    dirs,            \* output sub-directories created
    image_paths,     \* the list built by the glob loop
    idx,             \* position of the for loop in image_paths (1-based)
    imgState,        \* per entry of image_paths: Pending / Extracted / Failed / Done
    kpLen,           \* per entry: size of the keypoint set process_image returned
    lastError,       \* the last "Error processing ..." line printed
    sessions,        \* number of tf.Session objects created
    loads,           \* number of saved_model.loader.load calls
    sessOpen,        \* whether the session is open
    runSess,         \* session id used by each sess.run call, in call order
    results,         \* the list results
    csvFiles,        \* csv path -> table stored there
    visFiles,        \* visualization paths written
    summaryFile,     \* contents of processing_summary.csv, or NoFile
    raised           \* exception propagated to the caller, or "none"

vars == << keypoint_map, keep_k_points, keypoints, df, dirOrder, weights_name,
           caseSensitive, pc, dirs, image_paths, idx, imgState, kpLen,
           lastError, sessions, loads, sessOpen, runSess, results, csvFiles,
           visFiles, summaryFile, raised >>

\* A file that was never written, and a file holding a table.
NoFile == [exists |-> FALSE, rows |-> << >>]
TableFile(rows) == [exists |-> TRUE, rows |-> rows]

Min(a, b) == IF a <= b THEN a ELSE b

\* ------------------------------------------------- extract_superpoint_keypoints
Grids == [Rows -> [Cols -> GridValues]]

\* All cells in the row-major order in which np.where enumerates a 2-D array.
CellsRowMajor ==
    [n \in 1 .. (Cardinality(Rows) * GridCols) |->
        << (n - 1) \div GridCols, (n - 1) % GridCols >>]

\* keypoint_map > 0
DetectedGE(v) == v >= 0
Detected(v) == v > 0

\* np.where(keypoint_map > 0), prob = keypoint_map[...], np.stack(..., axis=-1):
\* one (row, column, prob) triple per detected cell, row-major.
Candidates(map) ==
    LET cells == SelectSeq(CellsRowMajor, LAMBDA c : Detected(map[c[1]][c[2]]))
    IN  [i \in 1 .. Len(cells) |-> << cells[i][1], cells[i][2], map[cells[i][1]][cells[i][2]] >>]

SortKeyAsc(cands) == [i \in DOMAIN cands |-> cands[i][3]]
\* -keypoints[:, 2]
SortKey(cands) == [i \in DOMAIN cands |-> 0 - cands[i][3]]

\* ndarray.argsort() with the default kind (quicksort: not stable): every index
\* order that puts the keys in non-decreasing order; equal keys come out in any
\* order.
RECURSIVE ArgsortFrom(_, _)
ArgsortFrom(keys, S) ==
    IF S = {} THEN { << >> }
    ELSE LET Least == {i \in S : \A j \in S : keys[i] <= keys[j]}
         IN  UNION { { << i >> \o t : t \in ArgsortFrom(keys, S \ {i}) } : i \in Least }

Argsort(keys) == ArgsortFrom(keys, DOMAIN keys)

\* seq[:k] for k >= 0
TopKPlusOne(seq, k) == SubSeq(seq, 1, Min(k + 1, Len(seq)))
TopK(seq, k) == SubSeq(seq, 1, Min(k, Len(seq)))

\* float -> int conversion of astype(int): truncation toward zero (of v / 2).
AsTypeInt(v) == IF v >= 0 THEN v \div 2 ELSE 0 - ((0 - v) \div 2)

\* keypoints[sorted_indices].astype(int); coordinates are whole numbers already.
CastRows(cands, order) ==
    [i \in DOMAIN order |->
        << cands[order[i]][1], cands[order[i]][2], AsTypeInt(cands[order[i]][3]) >>]

\* The arrays extract_superpoint_keypoints(map, k) can return.
ExtractResults(map, k) ==
    LET cands == Candidates(map)
    IN  { CastRows(cands, TopK(order, k)) : order \in Argsort(SortKey(cands)) }

\* ------------------------------------------------------- save_keypoints_to_csv
\* df.sort_values('confidence', ascending=False) with the default kind
\* (quicksort: not stable): every row order with non-increasing confidence.
SortValuesDesc(kps) ==
    { [i \in DOMAIN order |-> kps[order[i]]] :
        order \in Argsort([i \in DOMAIN kps |-> 0 - kps[i][3]]) }

\* df.index = range(1, len(df) + 1)
Reindex(rows) ==
    [i \in DOMAIN rows |->
        [index |-> i, y |-> rows[i][1], x |-> rows[i][2], confidence |-> rows[i][3]]]

\* The tables save_keypoints_to_csv(kps, path) can build.
SaveCsvResults(kps) == { Reindex(rows) : rows \in SortValuesDesc(kps) }

\* ------------------------------------------------------------ the input folder
\* A file name is a stem and an extension; the extension is a sequence of
\* characters so that str.upper() and case folding are computed, not assumed.
AllFiles ==
    { [stem |-> "a", ext |-> << ".", "j", "p", "g" >>],
      [stem |-> "a", ext |-> << ".", "P", "N", "G" >>],
      [stem |-> "b", ext |-> << ".", "J", "p", "e", "g" >>],
      [stem |-> "n", ext |-> << ".", "t", "x", "t" >>] }

UpperChar(c) ==
    CASE c = "j" -> "J" [] c = "p" -> "P" [] c = "g" -> "G" [] c = "e" -> "E"
      [] c = "n" -> "N" [] c = "b" -> "B" [] c = "m" -> "M" [] c = "t" -> "T"
      [] c = "x" -> "X" [] OTHER -> c

LowerChar(c) ==
    CASE c = "J" -> "j" [] c = "P" -> "p" [] c = "G" -> "g" [] c = "E" -> "e"
      [] c = "N" -> "n" [] c = "B" -> "b" [] c = "M" -> "m" [] c = "T" -> "t"
      [] c = "X" -> "x" [] OTHER -> c

\* ext.upper()
Upper(e) == [i \in DOMAIN e |-> UpperChar(e[i])]
Lower(e) == [i \in DOMAIN e |-> LowerChar(e[i])]

\* image_extensions = ['.jpg', '.jpeg', '.png', '.bmp']
image_extensions ==
    << << ".", "j", "p", "g" >>, << ".", "j", "p", "e", "g" >>,
       << ".", "p", "n", "g" >>, << ".", "b", "m", "p" >> >>

\* Whether a name with extension e matches the pattern '*' + pat: pathlib
\* compares the characters as they are on a case-sensitive platform and
\* case-folded on a case-insensitive one.
GlobMatch(e, pat, sensitive) ==
    IF sensitive THEN e = pat ELSE Lower(e) = Lower(pat)

\* input_folder.glob('*' + pat): the matching entries in directory order.
Glob(dir, pat, sensitive) ==
    SelectSeq(dir, LAMBDA f : GlobMatch(f.ext, pat, sensitive))

\* The loop over image_extensions: for each extension the lower-case glob, then
\* the upper-case glob, appended to image_paths.
RECURSIVE GlobAll(_, _, _)
GlobAll(dir, sensitive, n) ==
    IF n = 0 THEN << >>
    ELSE GlobAll(dir, sensitive, n - 1)
            \o Glob(dir, image_extensions[n], sensitive)
            \o Glob(dir, Upper(image_extensions[n]), sensitive)

ImagePaths(dir, sensitive) == GlobAll(dir, sensitive, Len(image_extensions))

\* assert weights_dir.name == "sp_v6"
WeightsAlwaysOk(name) == TRUE
WeightsOk(name) == name = "sp_v6"

\* csv_dir / f"{image_name}_keypoints.csv", vis_dir / f"{image_name}_keypoints.jpg"
CsvPath(image_name) == << "csv", image_name, "_keypoints.csv" >>
VisPath(image_name) == << "visualizations", image_name, "_keypoints.jpg" >>

\* The dict appended to results.
SummaryRowZero(image_path, kps) ==
    [ image_name |-> image_path.stem, num_keypoints |-> 0,
      csv_path |-> CsvPath(image_path.stem),
      visualization_path |-> VisPath(image_path.stem) ]
SummaryRow(image_path, kps) ==
    [ image_name |-> image_path.stem, num_keypoints |-> Len(kps),
      csv_path |-> CsvPath(image_path.stem),
      visualization_path |-> VisPath(image_path.stem) ]

\* Leaving the block "with tf.Session(graph=graph) as sess": the session is
\* closed, on return and on exception alike.
SessionLeak(open) == open
SessionExit(open) == FALSE

\* The grids the inference engine returns in the batch model: the grid
\* [[0, 5], [3, 0]] (padded with zeros) and a grid with one positive cell.
GridA == [r \in Rows |-> [c \in Cols |->
            IF r = 0 /\ c = 1 THEN 10 ELSE IF r = 1 /\ c = 0 THEN 6 ELSE 0]]
GridB == [r \in Rows |-> [c \in Cols |-> IF r = 0 /\ c = 0 THEN 7 ELSE -1]]
GridZero == [r \in Rows |-> [c \in Cols |-> 0]]
BatchGrids == {GridA, GridB}

\* The steps of process_image that can raise inside its try block.
FailSteps == {"decode", "inference", "extract", "render"}

CsvPaths == { CsvPath(f.stem) : f \in AllFiles }

\* The directory listings of the folders with at most MaxFiles files.
Orderings(S) ==
    { s \in [1 .. Cardinality(S) -> S] : \A i, j \in DOMAIN s : i # j => s[i] # s[j] }
Folders == { S \in SUBSET AllFiles : Cardinality(S) <= MaxFiles }
Listings == UNION { Orderings(S) : S \in Folders }

\* ------------------------------------------------------------------- states
\* What both specifications start from: nothing created, nothing written.
Fresh ==
    /\ keypoints = << >>
    /\ df = << >>
    /\ dirs = {}
    /\ image_paths = << >>
    /\ idx = 1
    /\ imgState = << >>
    /\ kpLen = << >>
    /\ lastError = "none"
    /\ sessions = 0
    /\ loads = 0
    /\ sessOpen = FALSE
    /\ runSess = << >>
    /\ results = << >>
    /\ csvFiles = [p \in CsvPaths |-> NoFile]
    /\ visFiles = {}
    /\ summaryFile = NoFile
    /\ raised = "none"

\* A call run_superpoint_on_folder(input_folder, weights_path, output_dir, ...).
Init ==
    /\ Fresh
    /\ keypoint_map = GridZero
    /\ keep_k_points \in 0 .. MaxKeep
    /\ dirOrder \in Listings
    /\ weights_name \in {"sp_v6", "sp_v5"}
    /\ caseSensitive \in BOOLEAN
    /\ pc = "start"

\* Lines 94-105: paths, output directories, the weights assertion.
Setup ==
    /\ pc = "start"
    /\ dirs' = {"csv", "visualizations"}
    /\ IF WeightsOk(weights_name)
       THEN pc' = "list" /\ raised' = raised
       ELSE pc' = "raised" /\ raised' = "AssertionError"
    /\ UNCHANGED << keypoint_map, keep_k_points, keypoints, df, dirOrder,
                    weights_name, caseSensitive, image_paths, idx, imgState,
                    kpLen, lastError, sessions, loads, sessOpen, runSess,
                    results, csvFiles, visFiles, summaryFile >>

\* Lines 107-117: the glob loop and the empty check.
ListImages ==
    /\ pc = "list"
    /\ image_paths' = ImagePaths(dirOrder, caseSensitive)
    /\ imgState' = [i \in DOMAIN image_paths' |-> "Pending"]
    /\ kpLen' = [i \in DOMAIN image_paths' |-> 0]
    /\ IF image_paths' = << >>
       THEN pc' = "raised" /\ raised' = "ValueError"
       ELSE pc' = "session" /\ raised' = raised
    /\ UNCHANGED << keypoint_map, keep_k_points, keypoints, df, dirOrder,
                    weights_name, caseSensitive, dirs, idx, lastError,
                    sessions, loads, sessOpen, runSess, results, csvFiles,
                    visFiles, summaryFile >>

\* Lines 120-136: the session is created, the model loaded, results = [].
OpenSession ==
    /\ pc = "session"
    /\ sessions' = sessions + 1
    /\ loads' = loads + 1
    /\ sessOpen' = TRUE
    /\ results' = << >>
    /\ idx' = 1
    /\ pc' = "loop"
    /\ UNCHANGED << keypoint_map, keep_k_points, keypoints, df, dirOrder,
                    weights_name, caseSensitive, dirs, image_paths, imgState,
                    kpLen, lastError, runSess, csvFiles, visFiles,
                    summaryFile, raised >>

\* Lines 137-148 with process_image (65-88): a step of process_image raises,
\* the error is printed, (None, None) comes back and the loop continues.
ProcessImageFails ==
    /\ pc = "loop"
    /\ idx <= Len(image_paths)
    /\ \E step \in FailSteps :
        /\ lastError' = step
        /\ runSess' = IF step = "decode" THEN runSess ELSE Append(runSess, sessions)
    /\ imgState' = [imgState EXCEPT ![idx] = "Failed"]
    /\ idx' = idx + 1
    /\ UNCHANGED << keypoint_map, keep_k_points, keypoints, df, dirOrder,
                    weights_name, caseSensitive, pc, dirs, image_paths, kpLen,
                    sessions, loads, sessOpen, results, csvFiles, visFiles,
                    summaryFile, raised >>

\* Lines 137-148 with process_image (65-88): preprocessing, sess.run,
\* extraction and drawing all succeed.
ProcessImageOk ==
    /\ pc = "loop"
    /\ idx <= Len(image_paths)
    /\ runSess' = Append(runSess, sessions)
    /\ \E grid \in BatchGrids :
        /\ keypoint_map' = grid
        /\ keypoints' \in ExtractResults(grid, keep_k_points)
    /\ imgState' = [imgState EXCEPT ![idx] = "Extracted"]
    /\ kpLen' = [kpLen EXCEPT ![idx] = Len(keypoints')]
    /\ pc' = "save"
    /\ UNCHANGED << keep_k_points, df, dirOrder, weights_name, caseSensitive,
                    dirs, image_paths, idx, lastError, sessions, loads,
                    sessOpen, results, csvFiles, visFiles, summaryFile, raised >>

\* Lines 150-166: table written, visualization written (cv2.imwrite returns
\* False without raising when it cannot write; the result is ignored), row
\* appended.
SaveResults ==
    /\ pc = "save"
    /\ LET image_path == image_paths[idx]
           image_name == image_path.stem
       IN  /\ df' \in SaveCsvResults(keypoints)
           /\ csvFiles' = [csvFiles EXCEPT ![CsvPath(image_name)] = TableFile(df')]
           /\ \E written \in BOOLEAN :
                visFiles' = IF written THEN visFiles \cup {VisPath(image_name)}
                            ELSE visFiles
           /\ results' = Append(results, SummaryRow(image_path, keypoints))
    /\ imgState' = [imgState EXCEPT ![idx] = "Done"]
    /\ idx' = idx + 1
    /\ pc' = "loop"
    /\ UNCHANGED << keypoint_map, keep_k_points, keypoints, dirOrder,
                    weights_name, caseSensitive, dirs, image_paths, kpLen,
                    lastError, sessions, loads, sessOpen, runSess, summaryFile,
                    raised >>

\* Lines 153-155 with 61: df.to_csv raises (unwritable path, full disk); the
\* call is outside any try block, so the error leaves the loop and the
\* function through the with block.
SaveTableFails ==
    /\ pc = "save"
    /\ df' \in SaveCsvResults(keypoints)
    /\ raised' = "OSError"
    /\ sessOpen' = SessionExit(sessOpen)
    /\ pc' = "raised"
    /\ UNCHANGED << keypoint_map, keep_k_points, keypoints, dirOrder,
                    weights_name, caseSensitive, dirs, image_paths, idx,
                    imgState, kpLen, lastError, sessions, loads, runSess,
                    results, csvFiles, visFiles, summaryFile >>

\* Lines 168-174: the summary is written and returned; the with block ends.
WriteSummary ==
    /\ pc = "loop"
    /\ idx > Len(image_paths)
    /\ summaryFile' = TableFile(results)
    /\ sessOpen' = SessionExit(sessOpen)
    /\ pc' = "done"
    /\ UNCHANGED << keypoint_map, keep_k_points, keypoints, df, dirOrder,
                    weights_name, caseSensitive, dirs, image_paths, idx,
                    imgState, kpLen, lastError, sessions, loads, runSess,
                    results, csvFiles, visFiles, raised >>

Next ==
    \/ Setup
    \/ ListImages
    \/ OpenSession
    \/ ProcessImageFails
    \/ ProcessImageOk
    \/ SaveResults
    \/ SaveTableFails
    \/ WriteSummary

Spec == Init /\ [][Next]_vars

\* ------------------------------------- the two pure functions on their own
\* extract_superpoint_keypoints and save_keypoints_to_csv applied to every
\* grid over GridValues and every keep_k_points up to MaxKeep.
InitExtract ==
    /\ Fresh
    /\ keypoint_map \in Grids
    /\ keep_k_points \in 0 .. MaxKeep
    /\ dirOrder = << >>
    /\ weights_name = "sp_v6"
    /\ caseSensitive = TRUE
    /\ pc = "extract"

\* Lines 24-35.
Extract ==
    /\ pc = "extract"
    /\ keypoints' \in ExtractResults(keypoint_map, keep_k_points)
    /\ pc' = "export"
    /\ UNCHANGED << keypoint_map, keep_k_points, df, dirOrder, weights_name,
                    caseSensitive, dirs, image_paths, idx, imgState, kpLen,
                    lastError, sessions, loads, sessOpen, runSess, results,
                    csvFiles, visFiles, summaryFile, raised >>

\* Lines 49-63.
SaveKeypointsToCsv ==
    /\ pc = "export"
    /\ df' \in SaveCsvResults(keypoints)
    /\ csvFiles' = [csvFiles EXCEPT ![CsvPath("a")] = TableFile(df')]
    /\ pc' = "exported"
    /\ UNCHANGED << keypoint_map, keep_k_points, keypoints, dirOrder,
                    weights_name, caseSensitive, dirs, image_paths, idx,
                    imgState, kpLen, lastError, sessions, loads, sessOpen,
                    runSess, results, visFiles, summaryFile, raised >>

NextExtract ==
    \/ Extract
    \/ SaveKeypointsToCsv

SpecExtract == InitExtract /\ [][NextExtract]_vars

\* ------------------------------------------------------------------ properties
Range(s) == { s[i] : i \in DOMAIN s }

Extracted == pc \in {"export", "exported"}

\* The cells of the current grid whose confidence is strictly positive.
PositiveCells == { c \in Rows \X Cols : keypoint_map[c[1]][c[2]] > 0 }

\* The cells the returned keypoints lie on.
ReturnedCells == { << keypoints[i][1], keypoints[i][2] >> : i \in DOMAIN keypoints }

GridConf(c) == keypoint_map[c[1]][c[2]]

\* C4: extract_superpoint_keypoints returns only cells whose grid confidence is
\* strictly positive, no cell twice, keep_k_points of them when that many
\* exist, and every positive cell left out has a confidence less than or equal
\* to that of every returned cell.
C4_TopKPositive ==
    Extracted =>
        /\ \A i \in DOMAIN keypoints :
              /\ keypoints[i][1] \in Rows
              /\ keypoints[i][2] \in Cols
              /\ GridConf(<< keypoints[i][1], keypoints[i][2] >>) > 0
        /\ \A i, j \in DOMAIN keypoints :
              i # j => << keypoints[i][1], keypoints[i][2] >>
                         # << keypoints[j][1], keypoints[j][2] >>
        /\ Cardinality(PositiveCells) >= keep_k_points
              => Len(keypoints) = keep_k_points
        /\ \A c \in PositiveCells \ ReturnedCells :
              \A r \in ReturnedCells : GridConf(c) <= GridConf(r)

C4_Witness ==
    /\ pc = "export"
    /\ keep_k_points > 0
    /\ Cardinality(PositiveCells) > keep_k_points
    /\ \E c \in PositiveCells \ ReturnedCells :
          \E r \in ReturnedCells : GridConf(c) < GridConf(r)

\* C5: the number of keypoints returned is at most min(keep_k_points, number of
\* positive cells); all candidates are returned when fewer than keep_k_points
\* exist; keep_k_points = 0 and a grid without positive cells give the empty
\* set.
C5_CountBound ==
    Extracted =>
        /\ Len(keypoints) <= Min(keep_k_points, Cardinality(PositiveCells))
        /\ Cardinality(PositiveCells) < keep_k_points
              => Len(keypoints) = Cardinality(PositiveCells)
        /\ keep_k_points = 0 => keypoints = << >>
        /\ PositiveCells = {} => keypoints = << >>

C5_Witness ==
    /\ pc = "export"
    /\ Cardinality(PositiveCells) > 0
    /\ Cardinality(PositiveCells) < keep_k_points
    /\ Len(keypoints) = Cardinality(PositiveCells)

\* C6: after the final cast to integer the confidence is non-increasing across
\* consecutive entries of the returned set; the grid [[0,5],[3,0]] with
\* keep_k_points = 2 gives [(0,1,5), (1,0,3)] in that order.
C6_NonIncreasing ==
    Extracted =>
        /\ \A i \in DOMAIN keypoints :
              i < Len(keypoints) => keypoints[i][3] >= keypoints[i + 1][3]
        /\ (keypoint_map = GridA /\ keep_k_points = 2)
              => keypoints = << << 0, 1, 5 >>, << 1, 0, 3 >> >>

C6_Witness ==
    /\ pc = "export"
    /\ keypoint_map = GridA
    /\ keep_k_points = 2
    /\ keypoints = << << 0, 1, 5 >>, << 1, 0, 3 >> >>

\* C10: for a keypoint set already sorted by confidence descending, the table
\* save_keypoints_to_csv builds has rows indexed 1..n without gaps and the row
\* with index i is the i-th keypoint of the input.
C10_SortKeepsOrder ==
    ( /\ pc = "exported"
      /\ \A i \in DOMAIN keypoints :
            i < Len(keypoints) => keypoints[i][3] >= keypoints[i + 1][3] )
    => /\ DOMAIN df = 1 .. Len(keypoints)
       /\ \A i \in DOMAIN df :
             df[i] = [index |-> i, y |-> keypoints[i][1], x |-> keypoints[i][2],
                      confidence |-> keypoints[i][3]]

\* The exceptions of the two fatal precondition checks.
FatalErrors == {"AssertionError", "ValueError"}

\* A file whose extension is on the allow-list, letter case ignored.
IsImageFile(f) == Lower(f.ext) \in Range(image_extensions)

\* How often file f occurs in image_paths.
TimesListed(f) == Cardinality({ i \in DOMAIN image_paths : image_paths[i] = f })

\* C1: an error raised by a per-image step (table and visualization write
\* included) sends the image to Failed and never reaches the caller of the
\* batch: the only errors the batch call raises are the two fatal ones.
C1_PerImageErrorsIsolated ==
    /\ raised \in {"none"} \cup FatalErrors
    /\ pc = "raised" /\ sessions > 0 => imgState[idx] = "Failed"

\* C2: when the batch call completes, the summary holds exactly one row per
\* processed image that did not fail, none for a failed one, in processing
\* order, and each row's num_keypoints is the size of that image's keypoint set.
RECURSIVE ExpectedRows(_)
ExpectedRows(n) ==
    IF n = 0 THEN << >>
    ELSE IF imgState[n] = "Failed" THEN ExpectedRows(n - 1)
    ELSE Append(ExpectedRows(n - 1),
                << image_paths[n].stem, kpLen[n] >>)

C3_FatalChecksFirst ==
    /\ raised \in FatalErrors =>
          /\ pc = "raised"
          /\ sessions = 0 /\ loads = 0 /\ ~sessOpen
          /\ runSess = << >>
          /\ \A i \in DOMAIN imgState : imgState[i] = "Pending"
          /\ \A p \in CsvPaths : csvFiles[p] = NoFile
          /\ visFiles = {}
          /\ summaryFile = NoFile
    /\ (weights_name # "sp_v6" /\ pc # "start") => raised = "AssertionError"
    /\ ( /\ weights_name = "sp_v6"
         /\ \A f \in Range(dirOrder) : ~IsImageFile(f)
         /\ pc \notin {"start", "list"} ) => raised = "ValueError"

C3_Witness ==
    /\ pc = "raised"
    /\ raised = "ValueError"
    /\ dirOrder # << >>
    /\ dirs = {"csv", "visualizations"}
    /\ sessions = 0

\* C7: every file of the folder whose extension is on the allow-list in any
\* letter case is listed for processing exactly once, and no other file is.
C7_EachImageListedOnce ==
    (pc \in {"session", "loop", "save", "done"} \/ raised \in {"ValueError", "OSError"}) =>
        \A f \in Range(dirOrder) :
            TimesListed(f) = IF IsImageFile(f) THEN 1 ELSE 0

\* C8: past the fatal checks the session is created and the model loaded
\* exactly once, every inference call uses that session, the session is open
\* while the loop runs and closed once the call has returned or raised.
C8_OneSessionReleased ==
    /\ sessions <= 1
    /\ loads = sessions
    /\ pc \in {"loop", "save", "done"} => sessions = 1
    /\ \A i \in DOMAIN runSess : runSess[i] = 1
    /\ Len(runSess) <= Len(image_paths)
    /\ pc \in {"loop", "save"} => sessOpen
    /\ pc \in {"done", "raised"} => ~sessOpen

C8_Witness ==
    /\ pc = "raised"
    /\ raised = "OSError"
    /\ ~sessOpen
    /\ Len(runSess) >= 2
    /\ \E i, j \in DOMAIN imgState : imgState[i] = "Failed" /\ imgState[j] = "Done"

\* C9: after a completed batch any two distinct successfully processed images
\* have distinct table paths and distinct visualization paths, and the file at
\* each row's csv_path exists.
C9_DistinctOutputPaths ==
    pc = "done" =>
        /\ \A i, j \in DOMAIN image_paths :
              ( /\ imgState[i] = "Done" /\ imgState[j] = "Done"
                /\ image_paths[i] # image_paths[j] )
              => /\ CsvPath(image_paths[i].stem) # CsvPath(image_paths[j].stem)
                 /\ VisPath(image_paths[i].stem) # VisPath(image_paths[j].stem)
        /\ \A r \in DOMAIN results : csvFiles[results[r].csv_path].exists

====
